---- MODULE Spec2Model ----
(***************************************************************************)
(* Versz browser client: the hand-rolled Router (class Router), the Auth   *)
(* helper (class Auth) and the App controller (class App) that wires them. *)
(*                                                                         *)
(* Execution model.  The page is single threaded.  Every action below is   *)
(* one run-to-completion segment of JavaScript:                            *)
(*   - an event handler or an API call up to its first suspension point,   *)
(*   - or the continuation of a suspended async function.                  *)
(* `async handleRoute` evaluates `Component()` and then suspends at the    *)
(* `await`; its continuation (the write of #app) is a microtask.  The      *)
(* microtask queue is FIFO and is drained before the browser delivers the  *)
(* next event, so events (popstate, click, submit, network completion) are *)
(* only taken when no continuation is pending, while script calls          *)
(* (navigate, addRoute, Auth.logout) may run while one is pending.         *)
(***************************************************************************)
EXTENDS Integers, Sequences, FiniteSets, TLC

\* ------------------------------------------------------------------ bounds
MaxHist == 3      \* longest session history that is explored
MaxPending == 2   \* most handleRoute continuations pending at once
MaxReqs == 1      \* most backend calls (api.login / api.register) in flight
MaxAdds == 1      \* addRoute calls made after App.initializeRouter
MaxCalls == 3     \* handleRoute invocations in one behaviour
MaxPeriods == 1   \* clock steps (of one cache lifetime) after the page load
MaxRounds == 2    \* startTracking invocations in one behaviour
MaxInFlight == 2  \* most update requests in flight at once

\* ------------------------------------------------------------ value domains
Undefined == "undefined"      \* a missing property of this.routes
Null == "null"                \* localStorage.getItem of a missing key

Views == {"HomeView", "DashboardView", "EditorView", "SharedView", "NotFoundView"}

Paths == {"/", "/dashboard", "/editor", "/editor/:id", "/:extension",
          "/editor/42", "/abc", "/404"}

\* arguments of router.navigate made by script, and href of a [data-link] element
NavUrls == {"/dashboard", "/editor/42", "/abc"}
LinkHrefs == {"https://versz.fun/editor/:id"}

\* addRoute calls made after start-up: <<path, component>>
AddCalls == {<<"/404", "NotFoundView">>, <<"/editor/:id", "SharedView">>}

\* access tokens the backend may return
Tokens == {"t2"}

\* ------------------------------------------------------- view functions
HomeView == "hero"
DashboardView == "dashboard"
EditorView == "container"
SharedView == "shared"
NotFoundView == "not-found"

\* Component(): the markup string a view function returns
Render(v) ==
    CASE v = "HomeView" -> HomeView
      [] v = "DashboardView" -> DashboardView
      [] v = "EditorView" -> EditorView
      [] v = "SharedView" -> SharedView
      [] v = "NotFoundView" -> NotFoundView

\* location.pathname after history.pushState(null, null, url): the url is
\* resolved against the document origin and the path component is kept
Pathname(url) ==
    CASE url = "https://versz.fun/editor/:id" -> "/editor/:id"
      [] url = "https://versz.fun/" -> "/"
      [] OTHER -> url

VARIABLES
    routes,      \* Router.routes: path -> view function (Undefined when absent)
    hist,        \* session history: the pathname of each entry
    idx,         \* index of the current entry; location.pathname = hist[idx]
    app,         \* children of #app: sequence of markup strings written there
    jobs,        \* suspended handleRoute invocations, in microtask order
    token,       \* localStorage 'token'
    reqs,        \* backend calls in flight, per kind
    appReady,    \* window.app has been constructed (DOMContentLoaded ran)
    unhandled,   \* a handleRoute promise was rejected (TypeError)
    calls,       \* number of handleRoute invocations so far
    registered,  \* history: the views passed to addRoute, per path, in order
    left,        \* history: per history entry, what #app showed when it was left
    op,          \* history: the operation that took the last step
    arg,         \* history: the url argument of that operation ("" when none)
    lastCall,    \* history: the most recent handleRoute invocation
    lastDone,    \* history: the most recent handleRoute that wrote #app
    lastLogin    \* history: the most recent completion of Auth.login

\* VerszApp (src/app.js): the profile page and its polling
VARIABLES
    clock,       \* Date.now(), in milliseconds since the page was loaded
    cache,       \* this.cache[kind]: Map userId -> {data, timestamp}
    fetches,     \* update requests in flight, in the order they were issued
    rounds,      \* startTracking invocations: the user and the updates awaited
    intervals,   \* this.intervals[kind]: the handle stored last (0 for null)
    timers,      \* the interval timers that are active in the window
    handles,     \* number of handles setInterval has returned so far
    viewingUser, \* this.state.viewingUser?.id
    ev,          \* history: the last step and what it did
    storage,     \* localStorage: spotify_user_id, spotify_auth_state,
                 \* login_pending, pending_custom_url (Null when absent)
    query,       \* the query parameters of the page: code, state
    pc,          \* where initializeComponents stands
    req,         \* the request initializeComponents waits for
    leaving,     \* the address assigned to window.location.href ("" for none)
    currentUser, \* this.state.currentUser
    spent,       \* history: the state parameters of the callback URLs that
                 \* checkAuthCallback has handled since login stored them
    isLoading,   \* this.state.isLoading
    loginUrl     \* history: the customUrl of the last login() that wrote
                 \* 'spotify_auth_state' ("" for a quick login, or none)

routerVars == <<routes, hist, idx, app, jobs, token, reqs, appReady, unhandled,
                calls, registered, left, op, arg, lastCall, lastDone, lastLogin>>

pollVars == <<clock, cache, fetches, rounds, intervals, timers, handles,
              viewingUser, ev>>

authVars == <<storage, query, pc, req, leaving, currentUser, spent, isLoading,
             loginUrl>>

\* VerszApp (src/unnamed/part_000): the earlier revision of the page
VARIABLES
    pathname,     \* window.location.pathname
    session,      \* localStorage: spotify_user_id, login_pending,
                  \* spotify_auth_state (Null when absent)
    sections,     \* which of #login-section, #profile-section, #user-info
                  \* are not hidden
    lookups,      \* the users whose profile a handleRouting is requesting
    tracking,     \* showProfileSection invocations that are suspended
    trackHandles, \* this.currentTrackInterval, this.recentTracksInterval
    running,      \* the interval timers that are active in the window
    made,         \* number of startTracking invocations that set their timers
    redirected,   \* the address assigned to window.location.href ("" for none)
    sessionCheck, \* the request of checkExistingSession is in flight
    params,       \* the code and state of window.location.search
    exchange,     \* the POST /auth/callback of checkAuthCallback
    last,         \* history: the last step
    searchValue,  \* the trimmed value of #user-search
    debounce,     \* the query this.searchDebounceTimeout will search for
    searches,     \* the requests of performSearch that are in flight
    results,      \* #search-results: hidden or not, and what it lists
    navs,         \* the requests of navigateToProfile that are in flight
    sev,          \* history: the last step of the search box
    urlValue,     \* the trimmed value of #custom-url-input
    saveDisabled, \* #save-url-btn.disabled
    checks,       \* the check-url requests that are in flight
    validation,   \* #url-validation: its message and whether it is 'valid'
    editorOpen,   \* #url-editor is not hidden
    saves,        \* the custom-url POSTs that are in flight
    answered,     \* history: the values check-url has answered as available
    eev           \* history: the last step of the editor

routeVars0 == <<pathname, session, sections, lookups, tracking, trackHandles,
                running, made, redirected, sessionCheck, params, exchange, last>>

searchVars == <<searchValue, debounce, searches, results, navs, sev>>

editorVars == <<urlValue, saveDisabled, checks, validation, editorOpen, saves,
                answered, eev>>

uiVars == <<searchVars, editorVars>>

p0Vars == <<routeVars0, uiVars>>

vzVars == <<pollVars, authVars, p0Vars>>

vars == <<routerVars, vzVars>>

\* ------------------------------------------------------------------ helpers
Last(s) == s[Len(s)]

Adds == LET RECURSIVE Sum(_)
            Sum(S) == IF S = {} THEN 0
                      ELSE LET p == CHOOSE x \in S : TRUE
                           IN Len(registered[p]) + Sum(S \ {p})
        IN Sum(Paths)

Pending == reqs.login + reqs.register

NoCall == [n |-> 0, path |-> "/", comp |-> Undefined, regAt |-> 0, fbAt |-> 0,
           threw |-> FALSE, trig |-> "none", behind |-> 0]
NoDone == [n |-> 0, path |-> "/", comp |-> Undefined, html |-> "", regAt |-> 0,
           trig |-> "none", hadToken |-> FALSE]
NoLogin == [n |-> 0, ok |-> FALSE, ret |-> FALSE, access_token |-> Null,
            before |-> Null]
NoLeft == [html |-> <<>>, adds |-> 0, ok |-> FALSE]

\* ------------------------------------------------------------------- Router
\* mutant: a registration that keeps an existing entry (first write wins)
SetRouteIfAbsent(rt, path, component) ==
    IF rt[path] = Undefined THEN [rt EXCEPT ![path] = component] ELSE rt

\* this.routes[path] = component
SetRoute(rt, path, component) == [rt EXCEPT ![path] = component]

\* the segments of a path, and whether a registered key matches a path when
\* segments that start with ':' are treated as parameters
Segments(path) ==
    CASE path = "/" -> <<>>
      [] path = "/dashboard" -> <<"dashboard">>
      [] path = "/editor" -> <<"editor">>
      [] path = "/editor/:id" -> <<"editor", ":id">>
      [] path = "/:extension" -> <<":extension">>
      [] path = "/editor/42" -> <<"editor", "42">>
      [] path = "/abc" -> <<"abc">>
      [] path = "/404" -> <<"404">>

Matches(key, path) ==
    /\ Len(Segments(key)) = Len(Segments(path))
    /\ \A i \in 1..Len(Segments(key)) :
          \/ Segments(key)[i] \in {":id", ":extension"}
          \/ Segments(key)[i] = Segments(path)[i]

\* mutant: a lookup that pattern-matches ':param' segments of registered keys
LookupPattern(rt, path) ==
    IF rt[path] # Undefined THEN rt[path]
    ELSE IF \E k \in Paths : rt[k] # Undefined /\ Matches(k, path)
         THEN rt[CHOOSE k \in Paths : rt[k] # Undefined /\ Matches(k, path)]
         ELSE rt["/404"]

\* this.routes[path] || this.routes['/404']
Lookup(rt, path) == IF rt[path] # Undefined THEN rt[path] ELSE rt["/404"]

\* mutant: the most recently suspended handleRoute resumes first
DequeueNewest(q) == [job |-> q[Len(q)], rest |-> SubSeq(q, 1, Len(q) - 1)]

\* the suspended handleRoute whose continuation runs next, and the rest
Dequeue(q) == [job |-> Head(q), rest |-> Tail(q)]

\* mutant: element.innerHTML += html
AppendInnerHTML(old, html) == Append(old, html)

\* element.innerHTML = html
SetInnerHTML(old, html) == <<html>>

\* mutant: the token is stored whatever the outcome of api.login
TokenAlwaysStored(ok, access_token, tok) == access_token

\* Auth.login after `await api.login`: setItem('token', data.access_token) in
\* the try block, nothing in the catch block
TokenAfterLogin(ok, access_token, tok) == IF ok THEN access_token ELSE tok

\* mutant: logout that leaves the entry in place
KeepItem(tok) == tok

\* localStorage.removeItem('token')
RemoveItem(tok) == Null

\* Auth.isAuthenticated: !!localStorage.getItem('token')
isAuthenticated(tok) == tok # Null /\ tok # ""

\* what #app shows for entry i of the history at the moment it is left
Snapshot(i) ==
    [html |-> app, adds |-> Adds,
     ok |-> /\ jobs = <<>>
            /\ routes[hist[i]] # Undefined
            /\ app = <<Render(routes[hist[i]])>>]

\* mutant: the path of the entry pushed last instead of the current entry
LastPushedPath(h, i) == h[Len(h)]

\* window.location.pathname
CurrentPath(h, i) == h[i]

\* history.pushState(null, null, url)
PushState(url) ==
    /\ hist' = Append(SubSeq(hist, 1, idx), Pathname(url))
    /\ left' = Append([i \in 1..idx |-> IF i = idx THEN Snapshot(i) ELSE left[i]], NoLeft)
    /\ idx' = idx + 1

\* handleRoute up to its await: read the path, look the component up, call it.
\* rt and reg are the route table and the registration log at the call.
HandleRoute(rt, reg, trig) ==
    LET path == CurrentPath(hist', idx')
        Component == Lookup(rt, path)
        call == [n |-> calls + 1, path |-> path, comp |-> Component,
                 regAt |-> Len(reg[path]), fbAt |-> Len(reg["/404"]),
                 threw |-> Component = Undefined, trig |-> trig,
                 behind |-> Len(jobs)]
    IN /\ calls' = calls + 1
       /\ lastCall' = call
       /\ IF Component = Undefined
          THEN \* Component is not a function: the async function rejects
               /\ unhandled' = TRUE
               /\ jobs' = jobs
          ELSE /\ unhandled' = unhandled
               /\ jobs' = Append(jobs, [n |-> calls + 1, path |-> path,
                                        comp |-> Component,
                                        html |-> Render(Component),
                                        regAt |-> Len(reg[path]), trig |-> trig])

CanCall == calls < MaxCalls /\ Len(jobs) < MaxPending
CanPush == idx < MaxHist

\* mutant: navigate that also stores the resolved component under the new path
NavigateCaching(url) ==
    /\ appReady /\ CanCall /\ CanPush
    /\ PushState(url)
    /\ HandleRoute(routes, registered, "navigate")
    /\ routes' = IF Lookup(routes, Pathname(url)) = Undefined THEN routes
                 ELSE SetRoute(routes, Pathname(url), Lookup(routes, Pathname(url)))
    /\ op' = "navigate" /\ arg' = url
    /\ UNCHANGED vzVars
    /\ UNCHANGED <<app, token, reqs, appReady, registered, lastDone, lastLogin>>

\* router.navigate(url), called by script
Navigate(url) ==
    /\ appReady /\ CanCall /\ CanPush
    /\ PushState(url)
    /\ HandleRoute(routes, registered, "navigate")
    /\ op' = "navigate" /\ arg' = url
    /\ UNCHANGED vzVars
    /\ UNCHANGED <<routes, app, token, reqs, appReady, registered, lastDone, lastLogin>>

\* the continuation of handleRoute after its await: write #app
Resume ==
    /\ jobs # <<>>
    /\ LET d == Dequeue(jobs)
       IN /\ jobs' = d.rest
          /\ app' = SetInnerHTML(app, d.job.html)
          /\ lastDone' = [n |-> d.job.n, path |-> d.job.path, comp |-> d.job.comp,
                          html |-> d.job.html, regAt |-> d.job.regAt,
                          trig |-> d.job.trig, hadToken |-> token # Null]
    /\ op' = "resume" /\ arg' = ""
    /\ UNCHANGED vzVars
    /\ UNCHANGED <<routes, hist, idx, token, reqs, appReady, unhandled, calls,
                   registered, left, lastCall, lastLogin>>

\* the routes App.initializeRouter registers, in order
AppRoutes == << <<"/", "HomeView">>, <<"/dashboard", "DashboardView">>,
                <<"/editor", "EditorView">>, <<"/editor/:id", "EditorView">>,
                <<"/:extension", "SharedView">> >>

\* router.addRoute applied to the first k entries of AppRoutes
RECURSIVE RoutesAfter(_, _)
RoutesAfter(rt, k) ==
    IF k = 0 THEN rt
    ELSE SetRoute(RoutesAfter(rt, k - 1), AppRoutes[k][1], AppRoutes[k][2])

RECURSIVE LogAfter(_, _)
LogAfter(reg, k) ==
    IF k = 0 THEN reg
    ELSE LET r == LogAfter(reg, k - 1)
         IN [r EXCEPT ![AppRoutes[k][1]] = Append(@, AppRoutes[k][2])]

\* DOMContentLoaded: new App() = initializeRouter(); setupEventListeners()
AppInit ==
    /\ ~appReady
    /\ jobs = <<>>
    /\ LET rt == RoutesAfter(routes, Len(AppRoutes))
           reg == LogAfter(registered, Len(AppRoutes))
           url == IF isAuthenticated(token) THEN "/dashboard" ELSE "/"
       IN /\ routes' = rt
          /\ registered' = reg
          /\ PushState(url)
          /\ HandleRoute(rt, reg, "navigate")
    /\ appReady' = TRUE
    /\ op' = "appInit" /\ arg' = ""
    /\ UNCHANGED vzVars
    /\ UNCHANGED <<app, token, reqs, lastDone, lastLogin>>

\* mutant: addRoute that re-renders when the path registered is the one shown
AddRouteAndRender(path, component) ==
    /\ appReady
    /\ Adds < Len(AppRoutes) + MaxAdds
    /\ routes' = SetRoute(routes, path, component)
    /\ registered' = [registered EXCEPT ![path] = Append(@, component)]
    /\ op' = "addRoute" /\ arg' = path
    /\ UNCHANGED vzVars
    /\ IF path = hist[idx] /\ CanCall
       THEN /\ UNCHANGED <<hist, idx, left>>
            /\ HandleRoute(routes', registered', "addRoute")
       ELSE UNCHANGED <<hist, idx, jobs, unhandled, calls, left, lastCall>>
    /\ UNCHANGED <<app, token, reqs, appReady, lastDone, lastLogin>>

\* router.addRoute(path, component), called by script after start-up
AddRoute(path, component) ==
    /\ appReady
    /\ Adds < Len(AppRoutes) + MaxAdds
    /\ routes' = SetRoute(routes, path, component)
    /\ registered' = [registered EXCEPT ![path] = Append(@, component)]
    /\ op' = "addRoute" /\ arg' = path
    /\ UNCHANGED vzVars
    /\ UNCHANGED <<hist, idx, app, jobs, token, reqs, appReady, unhandled, calls,
                   left, lastCall, lastDone, lastLogin>>

\* window 'popstate': the browser moved d entries through the history
PopState(d) ==
    /\ appReady /\ jobs = <<>> /\ calls < MaxCalls
    /\ idx + d \in 1..Len(hist)
    /\ idx' = idx + d
    /\ left' = [left EXCEPT ![idx] = Snapshot(idx)]
    /\ hist' = hist
    /\ HandleRoute(routes, registered, IF d < 0 THEN "back" ELSE "forward")
    /\ op' = "popstate" /\ arg' = ""
    /\ UNCHANGED vzVars
    /\ UNCHANGED <<routes, app, token, reqs, appReady, registered,
                   lastDone, lastLogin>>

\* document 'click' on an element matching [data-link]
Click(href) ==
    /\ appReady /\ jobs = <<>> /\ CanCall /\ CanPush
    /\ PushState(href)
    /\ HandleRoute(routes, registered, "navigate")
    /\ op' = "click" /\ arg' = href
    /\ UNCHANGED vzVars
    /\ UNCHANGED <<routes, app, token, reqs, appReady, registered, lastDone, lastLogin>>

\* --------------------------------------------------------------------- Auth
\* Auth.logout(), called by script
Logout ==
    /\ appReady /\ CanCall /\ CanPush
    /\ token' = RemoveItem(token)
    /\ PushState("/")
    /\ HandleRoute(routes, registered, "navigate")
    /\ op' = "logout" /\ arg' = ""
    /\ UNCHANGED vzVars
    /\ UNCHANGED <<routes, app, reqs, appReady, registered, lastDone, lastLogin>>

\* a form with the given id is inside #app (both forms are HomeView markup)
HasForms == \E i \in 1..Len(app) : app[i] = HomeView

\* document 'submit' from #loginForm: Auth.login up to `await api.login`
SubmitLogin ==
    /\ appReady /\ jobs = <<>> /\ HasForms
    /\ Pending < MaxReqs
    /\ reqs' = [reqs EXCEPT !.login = @ + 1]
    /\ op' = "submitLogin" /\ arg' = ""
    /\ UNCHANGED vzVars
    /\ UNCHANGED <<routes, hist, idx, app, jobs, token, appReady, unhandled, calls,
                   registered, left, lastCall, lastDone, lastLogin>>

\* document 'submit' from #registerForm: Auth.register up to `await api.register`
SubmitRegister ==
    /\ appReady /\ jobs = <<>> /\ HasForms
    /\ Pending < MaxReqs
    /\ reqs' = [reqs EXCEPT !.register = @ + 1]
    /\ op' = "submitRegister" /\ arg' = ""
    /\ UNCHANGED vzVars
    /\ UNCHANGED <<routes, hist, idx, app, jobs, token, appReady, unhandled, calls,
                   registered, left, lastCall, lastDone, lastLogin>>

\* api.login settles: the rest of Auth.login, then the rest of the submit
\* handler (router.navigate('/dashboard') when Auth.login returned true)
LoginSettle(ok, access_token) ==
    /\ jobs = <<>> /\ reqs.login > 0
    /\ reqs' = [reqs EXCEPT !.login = @ - 1]
    /\ lastLogin' = [n |-> 1, ok |-> ok, ret |-> ok,
                     access_token |-> access_token, before |-> token]
    /\ op' = "loginSettle" /\ arg' = ""
    /\ UNCHANGED vzVars
    /\ token' = TokenAfterLogin(ok, access_token, token)
    /\ IF ok
       THEN /\ CanCall /\ CanPush
            /\ PushState("/dashboard")
            /\ HandleRoute(routes, registered, "navigate")
            /\ UNCHANGED <<routes, app, appReady, registered, lastDone>>
       ELSE UNCHANGED <<routes, hist, idx, app, jobs, appReady, unhandled,
                        calls, registered, left, lastCall, lastDone>>

\* api.register settles: on success Auth.register goes on to this.login
RegisterSettle(ok) ==
    /\ jobs = <<>> /\ reqs.register > 0
    /\ reqs' = IF ok THEN [login |-> reqs.login + 1, register |-> reqs.register - 1]
               ELSE [reqs EXCEPT !.register = @ - 1]
    /\ op' = "registerSettle" /\ arg' = ""
    /\ UNCHANGED vzVars
    /\ UNCHANGED <<routes, hist, idx, app, jobs, token, appReady, unhandled, calls,
                   registered, left, lastCall, lastDone, lastLogin>>


\* ======================================================= VerszApp (app.js)
\* The profile page of src/app.js. An update request that was issued stays in
\* `fetches` until its response (status and body) has arrived; the responses
\* of requests in flight arrive in any order. A timer, a window event and a
\* response each run to completion, together with the continuations they
\* resolve (the code after `await Promise.all` in startTracking runs in the
\* step of the response that settles the last update of the round).
\* Two kinds of update stand for the five: recentTracks, which requests on
\* every call, and topTracks, which answers from the cache for five minutes
\* (updateTopArtists and updatePlaylists repeat updateTopTracks line for line;
\* updateCurrentTrack has no cache).

Users == {"u1"}
Data == {"d1", "d2"}
Kinds == {"recentTracks", "topTracks"}
KindOrder == <<"recentTracks", "topTracks">>

\* what a request can come back with: a failure (status not ok, network
\* error, timeout) or a body
Responses == {[ok |-> FALSE, data |-> ""]} \cup {[ok |-> TRUE, data |-> d] : d \in Data}

\* null in this.intervals
NoHandle == 0

\* cache.get(userId) === undefined
NoEntry == [has |-> FALSE, data |-> "", timestamp |-> 0]

\* the age below which updateTopTracks answers from the cache
CacheTtl == 300000

NoEvent == [op |-> "init", user |-> "", kinds |-> {}, issued |-> {},
            kind |-> "", ok |-> FALSE, data |-> "", overtaken |-> FALSE,
            settled |-> FALSE, success |-> FALSE, wrote |-> FALSE,
            posted |-> FALSE, finished |-> FALSE, replay |-> FALSE,
            stored |-> Null,
            cancelled |-> 0, custom |-> FALSE, input |-> Null]

\* mutant: an update that requests whatever the age of the cached entry
NeedsFetchAlways(kind, entry, t) == TRUE

\* update<Kind> up to its request: updateRecentTracks always requests,
\* updateTopTracks returns the cached data when the entry is younger than
\* five minutes
NeedsFetch(kind, entry, t) ==
    \/ kind = "recentTracks"
    \/ ~entry.has
    \/ ~(t - entry.timestamp < CacheTtl)

\* the requests that the updates of the given kinds issue for user u, in the
\* order of the calls
RECURSIVE Issue(_, _, _, _)
Issue(i, ks, u, r) ==
    IF i > Len(KindOrder) THEN <<>>
    ELSE LET k == KindOrder[i]
         IN (IF k \in ks /\ NeedsFetch(k, cache[k][u], clock)
             THEN <<[kind |-> k, user |-> u, round |-> r, overtaken |-> FALSE]>>
             ELSE <<>>) \o Issue(i + 1, ks, u, r)

Poll(src, ks, u, issued) ==
    [NoEvent EXCEPT !.op = src, !.user = u, !.kinds = ks,
                    !.issued = {issued[i].kind : i \in 1..Len(issued)}]

\* the handles stored in this.intervals
Held(iv) == {iv[k] : k \in Kinds} \ {NoHandle}

\* clearIntervals: clearInterval on every handle stored in this.intervals
\* (the handles stay stored)
TimersAfterClear(tm, iv) == {t \in tm : t.h \notin Held(iv)}

\* the timers setupTrackingIntervals creates for user u, given the number of
\* handles returned before
NewTimers(u, n) ==
    {[h |-> n + i, kind |-> KindOrder[i], user |-> u] : i \in 1..Len(KindOrder)}

\* mutant: setupTrackingIntervals that cancels the handle it is about to replace
TimersAfterSetupClearing(tm, iv, new) == TimersAfterClear(tm, iv) \cup new

\* setupTrackingIntervals: this.intervals[key] = setInterval(...)
TimersAfterSetup(tm, iv, new) == tm \cup new

\* mutant: a response is dropped when a request issued later already wrote
CacheKeepNewerRequest(c, f, ok, d, t) ==
    IF ok /\ ~f.overtaken
    THEN [c EXCEPT ![f.kind][f.user] = [has |-> TRUE, data |-> d, timestamp |-> t]]
    ELSE c

\* update<Kind> after its request: cache.set(userId, {data, timestamp}) when
\* the response is ok, the cache as it was otherwise
CacheAfterFetch(c, f, ok, d, t) ==
    IF ok
    THEN [c EXCEPT ![f.kind][f.user] = [has |-> TRUE, data |-> d, timestamp |-> t]]
    ELSE c

CanIssue(n) == Len(fetches) + n <= MaxInFlight

\* showProfileSection from `this.state.viewingUser = userData` on:
\* startTracking(userData.id) up to `await Promise.all`
StartTracking(u) ==
    LET r == Len(rounds) + 1
        issued == Issue(1, Kinds, u, r)
    IN /\ Len(rounds) < MaxRounds
       /\ CanIssue(Len(issued))
       /\ viewingUser' = u
       /\ timers' = TimersAfterClear(timers, intervals)
       /\ fetches' = fetches \o issued
       /\ rounds' = Append(rounds, [user |-> u, left |-> Len(issued)])
       /\ ev' = Poll("startTracking", Kinds, u, issued)
       /\ UNCHANGED <<clock, cache, intervals, handles>>

\* a profile is shown, whatever the route that led to it
ShowProfileSection(u) ==
    /\ StartTracking(u)
    /\ UNCHANGED <<routerVars, authVars, p0Vars>>

\* a timer created by setupTrackingIntervals fires: update<Kind>(userId)
TimerFires(t) ==
    LET issued == Issue(1, {t.kind}, t.user, 0)
    IN /\ t \in timers
       /\ CanIssue(Len(issued))
       /\ fetches' = fetches \o issued
       /\ ev' = Poll("interval", {t.kind}, t.user, issued)
       /\ UNCHANGED <<clock, cache, rounds, intervals, timers, handles, viewingUser>>
       /\ UNCHANGED <<routerVars, authVars, p0Vars>>

\* window 'focus': handleWindowFocus, refreshUserData up to `await Promise.all`
WindowFocus ==
    LET issued == Issue(1, Kinds, viewingUser, 0)
    IN /\ viewingUser # Null
       /\ CanIssue(Len(issued))
       /\ fetches' = fetches \o issued
       /\ ev' = Poll("focus", Kinds, viewingUser, issued)
       /\ UNCHANGED <<clock, cache, rounds, intervals, timers, handles, viewingUser>>
       /\ UNCHANGED <<routerVars, authVars, p0Vars>>

\* the response of the i-th request in flight arrives: the rest of
\* update<Kind>, and the rest of startTracking when this was the last update
\* its Promise.all waited for
UpdateArrives(i, ok, d) ==
    /\ i \in 1..Len(fetches)
    /\ LET f == fetches[i]
           settles == f.round > 0 /\ rounds[f.round].left = 1
           new == NewTimers(rounds[f.round].user, handles)
       IN /\ cache' = CacheAfterFetch(cache, f, ok, d, clock)
          /\ fetches' = [j \in 1..(Len(fetches) - 1) |->
                           LET g == fetches[IF j < i THEN j ELSE j + 1]
                           IN IF ok /\ j < i /\ g.kind = f.kind /\ g.user = f.user
                              THEN [g EXCEPT !.overtaken = TRUE] ELSE g]
          /\ rounds' = IF f.round > 0
                       THEN [rounds EXCEPT ![f.round].left = @ - 1] ELSE rounds
          /\ IF settles
             THEN /\ timers' = TimersAfterSetup(timers, intervals, new)
                  /\ intervals' = [k \in Kinds |->
                                     (CHOOSE t \in new : t.kind = k).h]
                  /\ handles' = handles + Len(KindOrder)
             ELSE UNCHANGED <<timers, intervals, handles>>
          /\ ev' = [NoEvent EXCEPT !.op = "fetchDone", !.user = f.user,
                                    !.kind = f.kind, !.ok = ok,
                                    !.data = d,
                                    !.overtaken = f.overtaken,
                                    !.settled = settles]
    /\ UNCHANGED <<clock, viewingUser>>

\* the response of the i-th request in flight arrives
FetchDone(i, ok, d) ==
    /\ UpdateArrives(i, ok, d)
    /\ UNCHANGED <<routerVars, authVars, p0Vars>>

\* window 'popstate': handleRouting up to its first await (clearIntervals)
HandleRouting ==
    /\ timers' = TimersAfterClear(timers, intervals)
    /\ ev' = [NoEvent EXCEPT !.op = "handleRouting"]
    /\ UNCHANGED <<clock, cache, fetches, rounds, intervals, handles, viewingUser>>
    /\ UNCHANGED <<routerVars, authVars, p0Vars>>

\* time passes: the clock is read in steps of one cache lifetime
AdvanceClock ==
    /\ clock < MaxPeriods * CacheTtl
    /\ clock' = clock + CacheTtl
    /\ ev' = [NoEvent EXCEPT !.op = "clock"]
    /\ UNCHANGED <<cache, fetches, rounds, intervals, timers, handles, viewingUser>>
    /\ UNCHANGED <<routerVars, authVars, p0Vars>>

\* ------------------------------------------------ VerszApp: login and logout
\* The page of src/app.js from its load on. initializeComponents runs
\* checkExistingSession, checkAuthCallback and handleRouting one after the
\* other; `pc` is the await it is suspended at, or the part that runs next
\* ("callback", "routing": a continuation that is ready, which runs before any
\* event is delivered). Assigning window.location.href starts a navigation:
\* the page keeps running until the next document is loaded.

AuthStates == {"s1", "s2"}
CustomUrls == {"c1"}

\* the address of the page: window.location.pathname, whether
\* window.location.search has a `code` parameter, and its `state` parameter
\* (Null when there is none). callback.html forwards a code to '/'.
Urls == {[code |-> FALSE, state |-> Null, path |-> p] : p \in {"/", "/u1"}}
            \cup {[code |-> TRUE, state |-> s, path |-> "/"] :
                     s \in AuthStates \cup {Null}}

\* localStorage without any of the four keys
NoStorage == [user |-> Null, state |-> Null, pending |-> Null, custom |-> Null]

NoReq == [kind |-> "none", user |-> Null, state |-> Null, stored |-> Null,
          custom |-> Null]

\* parts of initializeComponents that are ready to run
Ready == {"callback", "routing"}

\* mutant: a comparison with the stored state only
validateStoredState(state, stored) == state = stored

\* validateAuthState: state === storedState && state !== null
validateAuthState(state, stored) == state = stored /\ state # Null

\* mutant: a cleanup that leaves the state in storage
clearLoginPending(st) == [st EXCEPT !.pending = Null, !.custom = Null]

\* clearAuthStorage: removeItem of login_pending, spotify_auth_state and
\* pending_custom_url
clearAuthStorage(st) ==
    [st EXCEPT !.pending = Null, !.state = Null, !.custom = Null]

\* mutant: a logout that removes the three keys logout removes in part_000
clearSessionKeys(st) ==
    [st EXCEPT !.user = Null, !.pending = Null, !.state = Null]

\* clearStorage: removeItem of spotify_user_id, login_pending,
\* spotify_auth_state and pending_custom_url
clearStorage(st) ==
    [st EXCEPT !.user = Null, !.pending = Null, !.state = Null, !.custom = Null]

\* setLoginStorage(state, customUrl)
setLoginStorage(st, state, customUrl) ==
    [st EXCEPT !.state = state, !.pending = "true",
               !.custom = IF customUrl # "" THEN customUrl ELSE @]

\* handleRouting up to its first await: clearIntervals, then showLoginSection
\* when the path is '/' and no user id is stored (st is the storage it reads,
\* tm the timers that are active; awaiting and done name the part after)
EnterRouting(st, tm, awaiting, done) ==
    /\ timers' = TimersAfterClear(tm, intervals)
    /\ pc' = IF query.path = "/" /\ st.user = Null THEN done ELSE awaiting

\* mutant: a session check that does not look at 'login_pending'
HasStoredUser(st) == st.user # Null

\* checkExistingSession: !(!userId || loginPending)
HasSession(st) == st.user # Null /\ st.pending = Null

\* a document of the site is loaded: new VerszApp(), initializeComponents up to
\* the first await of checkExistingSession
PageLoad(u) ==
    /\ pc \notin Ready
    /\ query' = u
    /\ leaving' = ""
    /\ currentUser' = Null
    /\ viewingUser' = Null
    /\ cache' = [k \in Kinds |-> [v \in Users |-> NoEntry]]
    /\ fetches' = <<>>
    /\ rounds' = <<>>
    /\ intervals' = [k \in Kinds |-> NoHandle]
    /\ timers' = {}
    /\ handles' = 0
    /\ IF ~HasSession(storage)
       THEN \* path '/': showLoginSection; return. Any other path:
            \* await this.loadProfile(viewingUserId)
            /\ pc' = IF u.path = "/" THEN "callback" ELSE "visit"
            /\ req' = NoReq
       ELSE \* validateUserSession up to its fetch
            /\ pc' = "session"
            /\ req' = [NoReq EXCEPT !.kind = "session", !.user = storage.user]
    /\ isLoading' = FALSE
    /\ ev' = [NoEvent EXCEPT !.op = "pageLoad"]
    /\ UNCHANGED <<clock, storage, spent, loginUrl>>
    /\ UNCHANGED <<routerVars, p0Vars>>

\* the response of validateUserSession's request arrives
SessionSettle(ok) ==
    /\ pc = "session" /\ req.kind = "session"
    /\ req' = NoReq
    /\ IF ok
       THEN \* this.state.currentUser = userData; await this.handleRouting()
            /\ currentUser' = req.user
            /\ EnterRouting(storage, timers, "profile0", "callback")
            /\ UNCHANGED <<storage, viewingUser, leaving, isLoading>>
       ELSE \* handleSessionError: logout(); showError
            /\ storage' = clearStorage(storage)
            /\ timers' = TimersAfterClear(timers, intervals)
            /\ currentUser' = Null
            /\ viewingUser' = Null
            /\ leaving' = "/"
            /\ isLoading' = FALSE
            /\ pc' = "callback"
    /\ ev' = [NoEvent EXCEPT !.op = "sessionSettle", !.ok = ok]
    /\ UNCHANGED <<clock, cache, fetches, rounds, intervals, handles, query, spent,
                   loginUrl>>
    /\ UNCHANGED <<routerVars, p0Vars>>

\* the profile that handleRouting, or the loadProfile of checkExistingSession,
\* waits for has been loaded: showProfileSection
ProfileLoaded(u) ==
    /\ pc \in {"visit", "profile0", "profile"}
    /\ StartTracking(u)
    /\ pc' = IF pc \in {"visit", "profile0"} THEN "tracking0" ELSE "tracking"
    /\ UNCHANGED <<storage, query, req, leaving, currentUser, spent>>
    /\ UNCHANGED <<routerVars, p0Vars, isLoading, loginUrl>>

\* handleRouting, or the loadProfile of checkExistingSession, could not load
\* the profile: showError, showLoginSection
ProfileFailed ==
    /\ pc \in {"visit", "profile0", "profile"}
    /\ timers' = TimersAfterClear(timers, intervals)
    /\ pc' = IF pc \in {"visit", "profile0"} THEN "callback" ELSE "done"
    /\ ev' = [NoEvent EXCEPT !.op = "profileFailed"]
    /\ UNCHANGED <<clock, cache, fetches, rounds, intervals, handles, viewingUser,
                   storage, query, req, leaving, currentUser, spent>>
    /\ UNCHANGED <<routerVars, p0Vars, isLoading, loginUrl>>

\* the response of an update request arrives while initializeComponents waits
\* for handleRouting, which waits for startTracking
TrackingSettle(i, ok, d) ==
    /\ pc \notin Ready
    /\ UpdateArrives(i, ok, d)
    /\ pc' = IF ev'.settled /\ pc = "tracking0" THEN "callback"
             ELSE IF ev'.settled /\ pc = "tracking" THEN "done"
             ELSE pc
    /\ UNCHANGED <<storage, query, req, leaving, currentUser, spent>>
    /\ UNCHANGED <<routerVars, p0Vars, isLoading, loginUrl>>

\* checkAuthCallback up to the await of processAuthCallback
CheckAuthCallback ==
    /\ pc = "callback"
    /\ IF ~query.code
       THEN /\ pc' = "routing"
            /\ ev' = [NoEvent EXCEPT !.op = "checkAuthCallback"]
            /\ UNCHANGED <<storage, req, spent>>
       ELSE IF ~validateAuthState(query.state, storage.state)
       THEN \* throw; handleAuthError: showError, clearAuthStorage
            /\ storage' = clearAuthStorage(storage)
            /\ pc' = "routing"
            /\ spent' = spent \cup {query.state}
            /\ ev' = [NoEvent EXCEPT !.op = "checkAuthCallback", !.finished = TRUE,
                                      !.replay = query.state \in spent]
            /\ req' = req
       ELSE \* processAuthCallback up to its fetch
            /\ req' = [NoReq EXCEPT !.kind = "callback", !.state = query.state,
                                    !.stored = storage.state,
                                    !.custom = storage.custom]
            /\ pc' = "post"
            /\ ev' = [NoEvent EXCEPT !.op = "checkAuthCallback", !.posted = TRUE,
                                      !.replay = query.state \in spent]
            /\ UNCHANGED <<storage, spent>>
    /\ UNCHANGED <<clock, cache, fetches, rounds, intervals, timers, handles,
                   viewingUser, query, leaving, currentUser>>
    /\ UNCHANGED <<routerVars, p0Vars, isLoading, loginUrl>>

\* the response of POST /auth/callback arrives: the rest of
\* processAuthCallback and of checkAuthCallback
AuthResponse(ok, success, user_id) ==
    /\ pc = "post" /\ req.kind = "callback"
    /\ req' = NoReq
    /\ pc' = "routing"
    /\ spent' = spent \cup {req.state}
    /\ IF ok /\ success
       THEN \* handleSuccessfulAuth
            /\ storage' = clearAuthStorage([storage EXCEPT !.user = user_id])
            /\ currentUser' = user_id
            /\ leaving' = "/"
       ELSE \* throw; handleAuthError: showError, clearAuthStorage
            /\ storage' = clearAuthStorage(storage)
            /\ UNCHANGED <<currentUser, leaving>>
    /\ ev' = [NoEvent EXCEPT !.op = "authResponse", !.ok = ok, !.success = success,
                              !.wrote = ok /\ success, !.finished = TRUE]
    /\ UNCHANGED <<clock, cache, fetches, rounds, intervals, timers, handles,
                   viewingUser, query>>
    /\ UNCHANGED <<routerVars, p0Vars, isLoading, loginUrl>>

\* the handleRouting that ends initializeComponents, up to its first await
InitialRouting ==
    /\ pc = "routing"
    /\ EnterRouting(storage, timers, "profile", "done")
    /\ ev' = [NoEvent EXCEPT !.op = "handleRouting"]
    /\ UNCHANGED <<clock, cache, fetches, rounds, intervals, handles, viewingUser,
                   storage, query, req, leaving, currentUser, spent>>
    /\ UNCHANGED <<routerVars, p0Vars, isLoading, loginUrl>>

\* #custom-url-input as login(true) finds it: missing, or present with its
\* data-valid mark and its trimmed value
NoInput == [present |-> FALSE, valid |-> FALSE, value |-> ""]

Inputs == {NoInput} \cup [present : {TRUE}, valid : BOOLEAN, value : CustomUrls \cup {""}]

\* mutant: login(true) asks only for the input to be there
LoginInputPresent(useCustomUrl, input) == useCustomUrl => input.present

\* login: whether it gets past `throw new Error('Please choose a valid URL')`
LoginInputOk(useCustomUrl, input) ==
    useCustomUrl => (input.present /\ input.valid)

\* login(useCustomUrl), from the click to the end of its finally block; state
\* is what generateSecureState returns. Its one await is of setLoginStorage,
\* which has settled, so it resumes before any other event is delivered.
Login(useCustomUrl, input, state) ==
    /\ pc \notin Ready /\ leaving = ""
    /\ IF isLoading
       THEN \* return
            /\ ev' = [NoEvent EXCEPT !.op = "loginIgnored",
                                      !.custom = useCustomUrl, !.input = input]
            /\ UNCHANGED <<storage, leaving, spent, loginUrl>>
       ELSE IF ~LoginInputOk(useCustomUrl, input)
       THEN \* throw; catch: showError
            /\ ev' = [NoEvent EXCEPT !.op = "loginFailed", !.stored = storage,
                                      !.custom = useCustomUrl, !.input = input]
            /\ UNCHANGED <<storage, leaving, spent, loginUrl>>
       ELSE LET customUrl == IF useCustomUrl THEN input.value ELSE ""
            IN /\ storage' = setLoginStorage(storage, state, customUrl)
               /\ leaving' = "https://accounts.spotify.com/authorize"
               /\ spent' = spent \ {state}
               /\ loginUrl' = customUrl
               /\ ev' = [NoEvent EXCEPT !.op = "login", !.custom = useCustomUrl,
                                         !.input = input]
    /\ isLoading' = FALSE  \* finally
    /\ UNCHANGED <<clock, cache, fetches, rounds, intervals, timers, handles,
                   viewingUser, query, req, pc, currentUser>>
    /\ UNCHANGED <<routerVars, p0Vars>>

\* logout(): clearStorage, clearIntervals, resetState, location.href = '/'
VerszLogout ==
    /\ pc \notin Ready
    /\ storage' = clearStorage(storage)
    /\ timers' = TimersAfterClear(timers, intervals)
    /\ currentUser' = Null
    /\ viewingUser' = Null
    /\ leaving' = "/"
    /\ ev' = [NoEvent EXCEPT !.op = "logout", !.stored = storage,
                              !.cancelled = Cardinality(timers) - Cardinality(timers')]
    /\ isLoading' = FALSE
    /\ UNCHANGED <<clock, cache, fetches, rounds, intervals, handles, query, req, pc,
                   spent, loginUrl>>
    /\ UNCHANGED <<routerVars, p0Vars>>

\* ============================================ VerszApp (unnamed/part_000)
\* The earlier revision of the page. Its constructor starts checkAuthCallback,
\* checkExistingSession and handleRouting without awaiting any of them, so
\* their requests are in flight together. A startTracking invocation waits
\* for its four updates as one (`tracking`); what the updates write to
\* dataCache and to the lists of the page is not part of this state.

Paths0 == {"/", "/u1", "/u2"}

\* path.split('/').filter(Boolean)[0]
FirstSegment(path) ==
    CASE path = "/u1" -> "u1"
      [] path = "/u2" -> "u2"
      [] OTHER -> Null

\* the sections of the page that are not hidden
Sections == [login : BOOLEAN, profile : BOOLEAN, userInfo : BOOLEAN]

NoLast == [op |-> "init", error |-> FALSE, user |-> Null]

\* handleRouting: the user whose profile the path asks for
ViewingUserId(path, st) == IF path = "/" THEN st.user ELSE FirstSegment(path)

\* showLoginSection: the login section shown, the other two hidden
LoginShown == [login |-> TRUE, profile |-> FALSE, userInfo |-> FALSE]

\* showProfileSection up to its first await
ProfileShown(sec, st) ==
    [login |-> FALSE, profile |-> TRUE,
     userInfo |-> IF st.user # Null THEN TRUE ELSE sec.userInfo]

\* clearIntervals: the timers left active
RunningAfterClear(run, th) ==
    {t \in run : t.h # th.currentTrack /\ t.h # th.recentTracks}

NoHandles == [currentTrack |-> NoHandle, recentTracks |-> NoHandle]

\* mutant: the catch block of handleRouting redirects whoever is logged in
RedirectAlways(st, old) == "/"

\* the catch block of handleRouting: window.location.href = '/' when no
\* 'spotify_user_id' is stored
RedirectUnlessLoggedIn(st, old) == IF st.user = Null THEN "/" ELSE old

CanAwait == Len(lookups) + Len(tracking) < MaxInFlight

\* handleRouting up to its await, for the path and the storage given
Route(path, st) ==
    IF ViewingUserId(path, st) = Null
    THEN \* showLoginSection
         /\ sections' = LoginShown
         /\ running' = RunningAfterClear(running, trackHandles)
         /\ trackHandles' = NoHandles
         /\ lookups' = lookups
    ELSE /\ lookups' = Append(lookups, ViewingUserId(path, st))
         /\ UNCHANGED <<sections, running, trackHandles>>

\* window 'popstate' after the browser moved to an entry with path p
PopState0(p) ==
    /\ redirected = "" /\ CanAwait
    /\ pathname' = p
    /\ Route(p, session)
    /\ last' = [NoLast EXCEPT !.op = "popstate"]
    /\ UNCHANGED <<session, tracking, made, redirected, sessionCheck>>
    /\ UNCHANGED <<routerVars, pollVars, authVars, uiVars, params, exchange>>

\* the response of checkExistingSession's request arrives
SessionSettle0(ok) ==
    /\ sessionCheck
    /\ sessionCheck' = FALSE
    /\ IF ok
       THEN \* await this.handleRouting()
            /\ CanAwait
            /\ Route(pathname, session)
            /\ UNCHANGED <<session, redirected>>
       ELSE \* logout()
            /\ session' = [session EXCEPT !.user = Null, !.pending = Null,
                                          !.state = Null]
            /\ running' = RunningAfterClear(running, trackHandles)
            /\ trackHandles' = NoHandles
            /\ redirected' = "/"
            /\ UNCHANGED <<sections, lookups>>
    /\ last' = [NoLast EXCEPT !.op = "sessionSettle"]
    /\ UNCHANGED <<pathname, tracking, made>>
    /\ UNCHANGED <<routerVars, pollVars, authVars, uiVars, params, exchange>>

\* the response of the i-th profile request of handleRouting arrives
LookupSettle(i, ok) ==
    /\ i \in 1..Len(lookups)
    /\ lookups' = [j \in 1..(Len(lookups) - 1) |->
                     lookups[IF j < i THEN j ELSE j + 1]]
    /\ IF ok
       THEN \* showProfileSection(userData, isOwnProfile) up to its await
            /\ sections' = ProfileShown(sections, session)
            /\ IF session.user # Null /\ lookups[i] # session.user
               THEN \* the request for the logged-in user's data
                    /\ tracking' = Append(tracking,
                                     [user |-> lookups[i], stage |-> "userInfo"])
                    /\ UNCHANGED <<running, trackHandles>>
               ELSE \* startTracking up to its await
                    /\ tracking' = Append(tracking,
                                     [user |-> lookups[i], stage |-> "updates"])
                    /\ running' = RunningAfterClear(running, trackHandles)
                    /\ trackHandles' = NoHandles
            /\ redirected' = redirected
            /\ last' = [NoLast EXCEPT !.op = "lookupDone", !.user = lookups[i]]
       ELSE \* catch: showError, and the redirect of a visitor
            /\ redirected' = RedirectUnlessLoggedIn(session, redirected)
            /\ last' = [NoLast EXCEPT !.op = "lookupFailed", !.error = TRUE,
                                      !.user = lookups[i]]
            /\ UNCHANGED <<sections, tracking, running, trackHandles>>
    /\ UNCHANGED <<pathname, session, made, sessionCheck>>
    /\ UNCHANGED <<routerVars, pollVars, authVars, uiVars, params, exchange>>

\* the response of showProfileSection's request for the logged-in user
\* arrives: updateUserInfo, updateProfileInfo, startTracking up to its await
UserInfoSettle(j) ==
    /\ j \in 1..Len(tracking)
    /\ tracking[j].stage = "userInfo"
    /\ tracking' = [tracking EXCEPT ![j].stage = "updates"]
    /\ running' = RunningAfterClear(running, trackHandles)
    /\ trackHandles' = NoHandles
    /\ last' = [NoLast EXCEPT !.op = "userInfoSettle"]
    /\ UNCHANGED <<pathname, session, sections, lookups, made, redirected,
                   sessionCheck>>
    /\ UNCHANGED <<routerVars, pollVars, authVars, uiVars, params, exchange>>

\* the four updates of the j-th startTracking have settled: the two
\* setInterval calls
TrackingSettle0(j) ==
    /\ j \in 1..Len(tracking)
    /\ tracking[j].stage = "updates"
    /\ made < MaxRounds
    /\ tracking' = [k \in 1..(Len(tracking) - 1) |->
                      tracking[IF k < j THEN k ELSE k + 1]]
    /\ running' = running \cup
                    {[h |-> 2 * made + 1, kind |-> "currentTrack",
                      user |-> tracking[j].user],
                     [h |-> 2 * made + 2, kind |-> "recentTracks",
                      user |-> tracking[j].user]}
    /\ trackHandles' = [currentTrack |-> 2 * made + 1,
                        recentTracks |-> 2 * made + 2]
    /\ made' = made + 1
    /\ last' = [NoLast EXCEPT !.op = "trackingSettle"]
    /\ UNCHANGED <<pathname, session, sections, lookups, redirected, sessionCheck>>
    /\ UNCHANGED <<routerVars, pollVars, authVars, uiVars, params, exchange>>

\* 'click' on #logout-btn: logout()
Logout0 ==
    /\ redirected = ""
    /\ session' = [session EXCEPT !.user = Null, !.pending = Null, !.state = Null]
    /\ running' = RunningAfterClear(running, trackHandles)
    /\ trackHandles' = NoHandles
    /\ redirected' = "/"
    /\ last' = [NoLast EXCEPT !.op = "logout"]
    /\ UNCHANGED <<pathname, sections, lookups, tracking, made, sessionCheck>>
    /\ UNCHANGED <<routerVars, pollVars, authVars, uiVars, params, exchange>>

\* 'click' on #login-btn: login() stores a fresh state and the pending flag
\* and leaves for the authorization page
Login0(state) ==
    /\ redirected = ""
    /\ session' = [session EXCEPT !.state = state, !.pending = "true"]
    /\ redirected' = "authorize"
    /\ last' = [NoLast EXCEPT !.op = "login"]
    /\ UNCHANGED <<pathname, sections, lookups, tracking, trackHandles, running,
                   made, sessionCheck, params, exchange>>
    /\ UNCHANGED <<routerVars, pollVars, authVars, uiVars>>

\* checkAuthCallback after its await: the storage it leaves
SessionAfterExchange(st, ok, success, user_id) ==
    IF ok /\ success
    THEN [user |-> user_id, pending |-> Null, state |-> Null]
    ELSE IF ok
         THEN st
         ELSE [st EXCEPT !.pending = Null, !.state = Null]

\* the response of POST /auth/callback arrives (ok = false also stands for
\* a network error)
AuthSettle0(ok, success, user_id) ==
    /\ exchange.pending
    /\ exchange' = [exchange EXCEPT !.pending = FALSE]
    /\ session' = SessionAfterExchange(session, ok, success, user_id)
    /\ redirected' = IF ok /\ success THEN "/" ELSE redirected
    /\ last' = [NoLast EXCEPT !.op = "authSettle", !.error = ~ok]
    /\ UNCHANGED <<pathname, sections, lookups, tracking, trackHandles, running,
                   made, sessionCheck, params>>
    /\ UNCHANGED <<routerVars, pollVars, authVars, uiVars>>

\* ---------------------------------------------- part_000: the search box
\* setupSearch and performSearch. An input event restarts the 300 ms timer;
\* the timer starts a request; requests complete in any order.

\* the trimmed values of #user-search
Typed == {"", "a", "ab", "abc"}

\* query.length of a trimmed value
Length(v) ==
    CASE v = "" -> 0
      [] v = "a" -> 1
      [] v = "ab" -> 2
      [] OTHER -> 3

\* the users a search response can list
Found == {{}, {"u1"}, {"u1", "u2"}}

NoResults == [hidden |-> TRUE, of |-> Null, items |-> {}, failed |-> FALSE]

NoSev == [op |-> "init", query |-> Null, stale |-> FALSE]

\* 'input' on #user-search with trimmed value v
SearchInput(v) ==
    /\ redirected = ""
    /\ v # searchValue
    /\ searchValue' = v
    /\ IF Length(v) < 2
       THEN \* clearTimeout; hideSearchResults
            /\ debounce' = Null
            /\ results' = [results EXCEPT !.hidden = TRUE]
       ELSE \* clearTimeout; setTimeout(() => this.performSearch(query), 300)
            /\ debounce' = v
            /\ results' = results
    /\ searches' = [i \in 1..Len(searches) |-> [searches[i] EXCEPT !.stale = TRUE]]
    /\ sev' = [NoSev EXCEPT !.op = "input", !.query = v]
    /\ UNCHANGED navs
    /\ UNCHANGED <<routerVars, pollVars, authVars, routeVars0, editorVars>>

\* this.searchDebounceTimeout fires: performSearch(query) up to its await
DebounceFires ==
    /\ debounce # Null
    /\ Len(searches) < MaxInFlight
    /\ searches' = Append(searches, [query |-> debounce, stale |-> FALSE])
    /\ debounce' = Null
    /\ sev' = [NoSev EXCEPT !.op = "performSearch", !.query = debounce]
    /\ UNCHANGED <<searchValue, results, navs>>
    /\ UNCHANGED <<routerVars, pollVars, authVars, routeVars0, editorVars>>

\* performSearch after its await: the list is filled and shown
ResultsAfterSearch(q, ok, users) ==
    [hidden |-> FALSE, of |-> q, items |-> IF ok THEN users ELSE {},
     failed |-> ~ok]

\* the response of the i-th search request arrives (ok = false also stands
\* for a network error)
SearchSettle(i, ok, users) ==
    /\ i \in 1..Len(searches)
    /\ searches' = [j \in 1..(Len(searches) - 1) |->
                      searches[IF j < i THEN j ELSE j + 1]]
    /\ results' = ResultsAfterSearch(searches[i].query, ok, users)
    /\ sev' = [NoSev EXCEPT !.op = "searchSettle", !.query = searches[i].query,
                            !.stale = searches[i].stale]
    /\ UNCHANGED <<searchValue, debounce, navs>>
    /\ UNCHANGED <<routerVars, pollVars, authVars, routeVars0, editorVars>>

\* 'focus' on #user-search
SearchFocus ==
    /\ redirected = ""
    /\ results' = IF Length(searchValue) >= 2
                  THEN [results EXCEPT !.hidden = FALSE] ELSE results
    /\ sev' = [NoSev EXCEPT !.op = "focus"]
    /\ UNCHANGED <<searchValue, debounce, searches, navs>>
    /\ UNCHANGED <<routerVars, pollVars, authVars, routeVars0, editorVars>>

\* 'click' on the item of user u in #search-results: navigateToProfile up to
\* its request, hideSearchResults, searchInput.value = ''
SearchResultClick(u) ==
    /\ redirected = ""
    /\ ~results.hidden /\ u \in results.items
    /\ Len(navs) < MaxInFlight
    /\ navs' = Append(navs, u)
    /\ results' = [results EXCEPT !.hidden = TRUE]
    /\ searchValue' = ""
    /\ sev' = [NoSev EXCEPT !.op = "resultClick"]
    /\ UNCHANGED <<debounce, searches>>
    /\ UNCHANGED <<routerVars, pollVars, authVars, routeVars0, editorVars>>

\* 'click' on the document outside #search-container
DocumentClick ==
    /\ redirected = ""
    /\ results' = [results EXCEPT !.hidden = TRUE]
    /\ sev' = [NoSev EXCEPT !.op = "documentClick"]
    /\ UNCHANGED <<searchValue, debounce, searches, navs>>
    /\ UNCHANGED <<routerVars, pollVars, authVars, routeVars0, editorVars>>

\* the response of the i-th request of navigateToProfile arrives: pushState
\* and handleRouting when the path differs, showError when it failed
NavSettle(i, ok) ==
    /\ i \in 1..Len(navs)
    /\ navs' = [j \in 1..(Len(navs) - 1) |-> navs[IF j < i THEN j ELSE j + 1]]
    /\ sev' = [NoSev EXCEPT !.op = "navSettle"]
    /\ IF ok /\ pathname # "/" \o navs[i]
       THEN /\ CanAwait
            /\ pathname' = "/" \o navs[i]
            /\ Route("/" \o navs[i], session)
            /\ last' = [NoLast EXCEPT !.op = "navigate"]
       ELSE /\ last' = [NoLast EXCEPT !.op = "navigate", !.error = ~ok]
            /\ UNCHANGED <<pathname, sections, running, trackHandles, lookups>>
    /\ UNCHANGED <<session, tracking, made, redirected, sessionCheck, params,
                   exchange>>
    /\ UNCHANGED <<searchValue, debounce, searches, results>>
    /\ UNCHANGED <<routerVars, pollVars, authVars, editorVars>>

\* ------------------------------------- part_000: the profile-URL editor
\* setupProfileUrlEditor. Every input event that passes the three local
\* tests starts a check-url request; the requests complete in any order.

TooLong == "abcdefghijabcdefghijabcdefghijk"

\* the trimmed values of #custom-url-input
UrlValues == {"", "ab", "abc", "ABC", "a-c", TooLong}

\* value.length
UrlLength(v) ==
    CASE v = "" -> 0
      [] v = "ab" -> 2
      [] v = TooLong -> 31
      [] OTHER -> 3

\* value.match(/^[a-zA-Z0-9]+$/)
IsAlnum(v) == v \in {"ab", "abc", "ABC", TooLong}

\* value.toLowerCase()
ToLower(v) == IF v = "ABC" THEN "abc" ELSE v

\* the message of the local test that a value fails ("" when it passes all)
LocalError(v) ==
    IF UrlLength(v) < 3 THEN "URL must be at least 3 characters"
    ELSE IF UrlLength(v) > 30 THEN "URL must be 30 characters or less"
    ELSE IF ~IsAlnum(v) THEN "URL can only contain letters and numbers"
    ELSE ""

\* what check-url answers: available, taken (with its reason), or nothing
\* that can be read
CheckOutcomes == {"available", "taken", "error"}

NoValidation == [message |-> "", valid |-> FALSE]

NoEev == [op |-> "init"]

\* 'click' on #edit-url-btn
EditUrlClick ==
    /\ redirected = ""
    /\ ~editorOpen
    /\ editorOpen' = TRUE
    /\ eev' = [NoEev EXCEPT !.op = "edit"]
    /\ UNCHANGED <<urlValue, saveDisabled, checks, validation, saves, answered>>
    /\ UNCHANGED <<routerVars, pollVars, authVars, routeVars0, searchVars>>

\* 'click' on #cancel-url-btn: the editor hidden, the input emptied,
\* clearUrlValidation
CancelUrlClick ==
    /\ redirected = ""
    /\ editorOpen
    /\ editorOpen' = FALSE
    /\ urlValue' = ""
    /\ validation' = NoValidation
    /\ eev' = [NoEev EXCEPT !.op = "cancel"]
    /\ UNCHANGED <<saveDisabled, checks, saves, answered>>
    /\ UNCHANGED <<routerVars, pollVars, authVars, routeVars0, searchVars>>

\* 'input' on #custom-url-input with trimmed value v
UrlInput(v) ==
    /\ redirected = ""
    /\ editorOpen
    /\ v # urlValue
    /\ urlValue' = v
    /\ IF LocalError(v) # ""
       THEN \* showUrlValidation(message, false); return
            /\ validation' = [message |-> LocalError(v), valid |-> FALSE]
            /\ checks' = checks
       ELSE \* the request for check-url
            /\ Len(checks) < MaxInFlight
            /\ checks' = Append(checks, v)
            /\ validation' = validation
    /\ eev' = [NoEev EXCEPT !.op = "input"]
    /\ UNCHANGED <<saveDisabled, editorOpen, saves, answered>>
    /\ UNCHANGED <<routerVars, pollVars, authVars, routeVars0, searchVars>>

\* the answer of the i-th check-url request arrives
CheckSettle(i, outcome) ==
    /\ i \in 1..Len(checks)
    /\ checks' = [j \in 1..(Len(checks) - 1) |->
                    checks[IF j < i THEN j ELSE j + 1]]
    /\ validation' =
         CASE outcome = "available" -> [message |-> "URL is available", valid |-> TRUE]
           [] outcome = "taken" -> [message |-> "reason", valid |-> FALSE]
           [] OTHER -> [message |-> "Error checking URL availability",
                        valid |-> FALSE]
    /\ saveDisabled' = (outcome # "available")
    /\ answered' = IF outcome = "available" THEN answered \cup {checks[i]}
                   ELSE answered \ {checks[i]}
    /\ eev' = [NoEev EXCEPT !.op = "checkSettle"]
    /\ UNCHANGED <<urlValue, editorOpen, saves>>
    /\ UNCHANGED <<routerVars, pollVars, authVars, routeVars0, searchVars>>

\* 'click' on #save-url-btn, which a disabled button does not deliver: the
\* POST of the lower-cased value
SaveUrlClick ==
    /\ redirected = ""
    /\ editorOpen /\ ~saveDisabled
    /\ Len(saves) < MaxInFlight
    /\ saves' = Append(saves, ToLower(urlValue))
    /\ eev' = [NoEev EXCEPT !.op = "save"]
    /\ UNCHANGED <<urlValue, saveDisabled, checks, validation, editorOpen, answered>>
    /\ UNCHANGED <<routerVars, pollVars, authVars, routeVars0, searchVars>>

\* the response of the i-th custom-url POST arrives: pushState to the new
\* path and the editor hidden, or showError
SaveSettle(i, ok) ==
    /\ i \in 1..Len(saves)
    /\ saves' = [j \in 1..(Len(saves) - 1) |-> saves[IF j < i THEN j ELSE j + 1]]
    /\ IF ok
       THEN /\ pathname' = "/" \o saves[i]
            /\ editorOpen' = FALSE
       ELSE UNCHANGED <<pathname, editorOpen>>
    /\ eev' = [NoEev EXCEPT !.op = "saveSettle"]
    /\ UNCHANGED <<urlValue, saveDisabled, checks, validation, answered>>
    /\ UNCHANGED <<session, sections, lookups, tracking, trackHandles, running,
                   made, redirected, sessionCheck, params, exchange, last>>
    /\ UNCHANGED <<routerVars, pollVars, authVars, searchVars>>

\* ========================================================== specifications
\* new VerszApp(): empty caches, no handle stored, nobody viewed
PollInit ==
    /\ clock = 0
    /\ cache = [k \in Kinds |-> [u \in Users |-> NoEntry]]
    /\ fetches = <<>>
    /\ rounds = <<>>
    /\ intervals = [k \in Kinds |-> NoHandle]
    /\ timers = {}
    /\ handles = 0
    /\ viewingUser = Null
    /\ ev = NoEvent

\* a first visit of '/': nothing stored, no query parameters; the page has
\* shown the login section and initializeComponents has finished
AuthInit ==
    /\ storage = NoStorage
    /\ query = [code |-> FALSE, state |-> Null, path |-> "/"]
    /\ pc = "done"
    /\ req = NoReq
    /\ leaving = ""
    /\ currentUser = Null
    /\ spent = {}
    /\ isLoading = FALSE
    /\ loginUrl = ""

\* what window.location.search can carry: nothing, or a code with or
\* without a state
NoParams == [code |-> Null, state |-> Null]

Params0 == {NoParams} \cup [code : {"c1"}, state : {Null} \cup AuthStates]

\* localStorage as the page finds it: login() writes 'login_pending' and
\* 'spotify_auth_state' together and every removal takes both
Storage0 ==
    {st \in [user : {Null, "u1"}, pending : {Null, "true"}, state : {Null, "s1"}] :
        (st.pending = Null) <=> (st.state = Null)}

\* checkAuthCallback: a code whose state differs from the stored one
StateMismatch(q, st) == q.code # Null /\ q.state # st.state

\* logout(): the three keys removed
LoggedOut(st) == [st EXCEPT !.user = Null, !.pending = Null, !.state = Null]

\* new VerszApp(): checkAuthCallback, checkExistingSession and handleRouting
\* up to their awaits, for each address, each storage and each markup the
\* page can be loaded with. callback.html forwards a code to '/'.
P0Init ==
    /\ pathname \in Paths0
    /\ params \in Params0
    /\ params.code # Null => pathname = "/"
    /\ \E st \in Storage0 :
         /\ session = IF StateMismatch(params, st) THEN LoggedOut(st) ELSE st
         /\ redirected = IF StateMismatch(params, st) THEN "/" ELSE ""
         /\ exchange = [sent |-> params.code # Null /\ ~StateMismatch(params, st),
                        pending |-> params.code # Null /\ ~StateMismatch(params, st),
                        stored |-> st.state]
    /\ sessionCheck = (session.user # Null /\ session.pending = Null)
    /\ lookups = IF ViewingUserId(pathname, session) = Null THEN <<>>
                 ELSE <<ViewingUserId(pathname, session)>>
    /\ sections \in Sections
    /\ (~sessionCheck \/ lookups = <<>>) => sections = LoginShown
    /\ tracking = <<>>
    /\ trackHandles = NoHandles
    /\ running = {}
    /\ made = 0
    /\ last = NoLast

\* the page of part_000 loaded on '/' with nothing stored (what the other
\* specifications hold it at)
P0Idle ==
    /\ pathname = "/"
    /\ session = [user |-> Null, pending |-> Null, state |-> Null]
    /\ sessionCheck = FALSE
    /\ lookups = <<>>
    /\ sections = LoginShown
    /\ tracking = <<>>
    /\ trackHandles = NoHandles
    /\ running = {}
    /\ made = 0
    /\ redirected = ""
    /\ params = NoParams
    /\ exchange = [sent |-> FALSE, pending |-> FALSE, stored |-> Null]
    /\ last = NoLast

\* setupSearch: the box is empty, no timer, no request, the list hidden
SearchInit ==
    /\ searchValue = ""
    /\ debounce = Null
    /\ searches = <<>>
    /\ results = NoResults
    /\ navs = <<>>
    /\ sev = NoSev

\* setupProfileUrlEditor: the editor hidden, the input empty, the save
\* button disabled
EditorInit ==
    /\ urlValue = ""
    /\ saveDisabled = TRUE
    /\ checks = <<>>
    /\ validation = NoValidation
    /\ editorOpen = FALSE
    /\ saves = <<>>
    /\ answered = {}
    /\ eev = NoEev

UiInit == SearchInit /\ EditorInit

RouterInit ==
    /\ routes = [p \in Paths |-> Undefined]
    /\ hist = <<"/">>
    /\ idx = 1
    /\ app = <<>>
    /\ jobs = <<>>
    /\ token \in {Null, "t1"}
    /\ reqs = [login |-> 0, register |-> 0]
    /\ appReady = FALSE
    /\ unhandled = FALSE
    /\ calls = 0
    /\ registered = [p \in Paths |-> <<>>]
    /\ left = <<NoLeft>>
    /\ op = "init"
    /\ arg = ""
    /\ lastCall = NoCall
    /\ lastDone = NoDone
    /\ lastLogin = NoLogin

Init == RouterInit /\ PollInit /\ AuthInit /\ P0Idle /\ UiInit

Next ==
    \/ AppInit
    \/ \E url \in NavUrls : Navigate(url)
    \/ Resume
    \/ \E c \in AddCalls : AddRoute(c[1], c[2])
    \/ \E d \in {-1, 1} : PopState(d)
    \/ \E href \in LinkHrefs : Click(href)
    \/ Logout
    \/ SubmitLogin
    \/ SubmitRegister
    \/ \E ok \in BOOLEAN, t \in Tokens : LoginSettle(ok, t)
    \/ \E ok \in BOOLEAN : RegisterSettle(ok)

Spec == Init /\ [][Next]_vars

InitPoll == RouterInit /\ token = Null /\ PollInit /\ AuthInit /\ P0Idle /\ UiInit

NextPoll ==
    \/ \E u \in Users : ShowProfileSection(u)
    \/ \E t \in timers : TimerFires(t)
    \/ WindowFocus
    \/ \E i \in 1..MaxInFlight, r \in Responses : FetchDone(i, r.ok, r.data)
    \/ HandleRouting
    \/ AdvanceClock

SpecPoll == InitPoll /\ [][NextPoll]_vars

InitAuth == RouterInit /\ token = Null /\ PollInit /\ AuthInit /\ P0Idle /\ UiInit

NextAuth ==
    \/ \E u \in Urls : PageLoad(u)
    \/ \E ok \in BOOLEAN : SessionSettle(ok)
    \/ \E u \in Users : ProfileLoaded(u)
    \/ ProfileFailed
    \/ \E i \in 1..MaxInFlight, r \in Responses : TrackingSettle(i, r.ok, r.data)
    \/ CheckAuthCallback
    \/ \E ok \in BOOLEAN, success \in BOOLEAN, u \in Users : AuthResponse(ok, success, u)
    \/ InitialRouting
    \/ \E useCustomUrl \in BOOLEAN, input \in Inputs, s \in AuthStates :
          Login(useCustomUrl, input, s)
    \/ VerszLogout

SpecAuth == InitAuth /\ [][NextAuth]_vars

InitP0 == RouterInit /\ token = Null /\ PollInit /\ AuthInit /\ P0Init /\ UiInit

NextP0 ==
    \/ \E p \in Paths0 : PopState0(p)
    \/ \E ok \in BOOLEAN : SessionSettle0(ok)
    \/ \E i \in 1..MaxInFlight, ok \in BOOLEAN : LookupSettle(i, ok)
    \/ \E j \in 1..MaxInFlight : UserInfoSettle(j)
    \/ \E j \in 1..MaxInFlight : TrackingSettle0(j)
    \/ Logout0
    \/ \E state \in {"s1"} : Login0(state)
    \/ \E ok, success \in BOOLEAN, user_id \in {"u1"} : AuthSettle0(ok, success, user_id)

SpecP0 == InitP0 /\ [][NextP0]_vars

\* the search box of a page loaded on '/' with nothing stored
InitSearch == RouterInit /\ token = Null /\ PollInit /\ AuthInit /\ P0Idle /\ UiInit

NextSearch ==
    \/ \E v \in Typed : SearchInput(v)
    \/ DebounceFires
    \/ \E i \in 1..MaxInFlight, ok \in BOOLEAN, users \in Found :
          SearchSettle(i, ok, users)
    \/ SearchFocus
    \/ \E u \in {"u1", "u2"} : SearchResultClick(u)
    \/ DocumentClick
    \/ \E i \in 1..MaxInFlight, ok \in BOOLEAN : NavSettle(i, ok)

SpecSearch == InitSearch /\ [][NextSearch]_vars

\* the profile-URL editor of a page loaded on '/'
InitEditor == RouterInit /\ token = Null /\ PollInit /\ AuthInit /\ P0Idle /\ UiInit

NextEditor ==
    \/ EditUrlClick
    \/ CancelUrlClick
    \/ \E v \in UrlValues : UrlInput(v)
    \/ \E i \in 1..MaxInFlight, outcome \in CheckOutcomes : CheckSettle(i, outcome)
    \/ SaveUrlClick
    \/ \E i \in 1..MaxInFlight, ok \in BOOLEAN : SaveSettle(i, ok)

SpecEditor == InitEditor /\ [][NextEditor]_vars

\* ============================================================== properties

\* C1: router.navigate(P) makes P the current (and newest) history entry and
\* starts a handleRoute on P; when a handleRoute started by navigate on a
\* registered path finishes, #app holds exactly the markup returned by the view
\* that was registered for that path, and nothing else.
C1_NavigateRendersView ==
    /\ (op = "navigate" /\ arg \in Paths) =>
          /\ idx = Len(hist)
          /\ hist[idx] = arg
          /\ lastCall.n = calls /\ lastCall.path = arg
    /\ (op = "resume" /\ lastDone.trig = "navigate" /\ lastDone.regAt > 0) =>
          app = <<Render(registered[lastDone.path][lastDone.regAt])>>

\* C1 witness: navigate to the registered '/dashboard' has finished and replaced
\* a different view that was shown before.
C1_Witness ==
    /\ op = "resume" /\ lastDone.trig = "navigate" /\ lastDone.regAt > 0
    /\ lastDone.path = "/dashboard" /\ app = <<DashboardView>>
    /\ idx > 1 /\ left[idx - 1].ok /\ left[idx - 1].html = <<HomeView>>

\* C2: once a handleRoute on a path that is not a key of the route table has
\* finished, #app shows the not-found view and no error was raised.
C2_UnknownPathShowsNotFound ==
    (appReady /\ jobs = <<>> /\ lastCall.n > 0 /\ lastCall.regAt = 0) =>
        /\ ~lastCall.threw
        /\ ~unhandled
        /\ app = <<NotFoundView>>

\* C3: when a view was shown for a registered path, the history moved on, and a
\* back-navigation returns to that entry (no addRoute in between), the
\* handleRoute started by popstate shows that same view again.
C3_BackRestoresView ==
    (/\ op = "resume" /\ lastDone.trig = "back"
     /\ left[idx].ok /\ left[idx].adds = Adds) =>
        app = left[idx].html

\* C3 witness: back from a page that showed a different view.
C3_Witness ==
    /\ op = "resume" /\ lastDone.trig = "back"
    /\ left[idx].ok /\ left[idx].adds = Adds
    /\ idx < Len(hist) /\ left[idx + 1].ok
    /\ left[idx + 1].html # left[idx].html
    /\ app = left[idx].html

\* C4: the route table binds every registered path to the view of the most
\* recent addRoute for it, and every handleRoute on a registered path invokes
\* the view that was registered last at that moment.
C4_LastRegistrationWins ==
    /\ \A p \in Paths :
          routes[p] = IF registered[p] = <<>> THEN Undefined ELSE Last(registered[p])
    /\ (lastCall.n > 0 /\ lastCall.regAt > 0) =>
          lastCall.comp = registered[lastCall.path][lastCall.regAt]

\* C4 witness: a handleRoute ran on a path that had been registered twice, with
\* different views.
C4_Witness ==
    /\ lastCall.n > 0 /\ lastCall.regAt = 2
    /\ registered[lastCall.path][1] # registered[lastCall.path][2]
    /\ lastCall.comp = registered[lastCall.path][2]

\* C5: lookup is by exact string: a handleRoute on a path that was never
\* registered literally resolves to the '/404' entry (or to nothing when there
\* is none), so '/editor/42' and '/abc' never select EditorView or SharedView
\* through the keys '/editor/:id' and '/:extension'.
C5_ExactMatch ==
    (lastCall.n > 0 /\ lastCall.regAt = 0) =>
        /\ lastCall.comp = IF lastCall.fbAt = 0 THEN Undefined
                           ELSE registered["/404"][lastCall.fbAt]
        /\ lastCall.threw = (lastCall.fbAt = 0)
        /\ lastCall.comp \notin {"EditorView", "SharedView"}

\* C5 witness: '/editor/42' was looked up while '/editor/:id' was registered.
C5_Witness ==
    /\ lastCall.n > 0 /\ lastCall.regAt = 0
    /\ lastCall.path = "/editor/42"
    /\ routes["/editor/:id"] \in {"EditorView", "SharedView"}
    /\ routes["/:extension"] = "SharedView"

\* C6: the route table changes only in a step that calls addRoute (a script
\* call of addRoute, or App.initializeRouter).
C6_RoutesChangeOnlyByAddRoute ==
    [][routes' # routes => op' \in {"addRoute", "appInit"}]_vars

\* C6 witness: navigate, click, popstate and render have all happened and the
\* table is the one App.initializeRouter built.
C6_Witness ==
    /\ op = "resume" /\ lastDone.trig = "back" /\ calls >= 3
    /\ routes = RoutesAfter([p \in Paths |-> Undefined], Len(AppRoutes))

\* C7 (as claimed): at most one handleRoute is ever between its read of the
\* path and its write of #app.
C7_SingleResolvingStep == Len(jobs) <= 1

\* C7 (amended): handleRoute suspends between calling the view and writing
\* #app; events are delivered only when at most the handleRoute they start is
\* pending, and pending handleRoutes write #app in the order they were started.
C7_ResolveInOrder ==
    /\ \A i \in 1..Len(jobs) : lastDone.n < jobs[i].n
    /\ \A i \in 1..(Len(jobs) - 1) : jobs[i].n < jobs[i + 1].n
    /\ op \in {"popstate", "click", "loginSettle", "submitLogin",
               "submitRegister", "registerSettle"} => Len(jobs) <= 1

\* C7 witness: one handleRoute has written #app while a later one is pending.
C7_Witness ==
    /\ op = "resume" /\ jobs # <<>>
    /\ lastDone.n > 0 /\ lastDone.n < jobs[1].n

\* C8: when api.login succeeds Auth.login stores the returned access token and
\* returns true; when it fails Auth.login returns false and the 'token' entry
\* is what it was before the failure was handled.
C8_LoginWritesTokenIffSuccess ==
    op = "loginSettle" =>
        /\ lastLogin.ok => (token = lastLogin.access_token /\ lastLogin.ret)
        /\ ~lastLogin.ok => (token = lastLogin.before /\ ~lastLogin.ret)

\* C8 witness: a failed login left an older token in place.
C8_Witness ==
    /\ op = "loginSettle" /\ ~lastLogin.ok
    /\ lastLogin.before # Null /\ token = lastLogin.before

\* C9: right after Auth.logout the 'token' entry is absent, the current path is
\* '/', and a handleRoute on '/' has been started; isAuthenticated becomes true
\* again only in a step in which Auth.login succeeds.
C9_Logout ==
    /\ [](op = "logout" =>
            /\ token = Null /\ ~isAuthenticated(token)
            /\ hist[idx] = "/"
            /\ lastCall.n = calls /\ lastCall.path = "/"
            /\ jobs # <<>> /\ Last(jobs).n = calls /\ Last(jobs).comp = routes["/"])
    /\ [][(~isAuthenticated(token) /\ isAuthenticated(token')) =>
            (op' = "loginSettle" /\ lastLogin'.ok)]_vars

\* C9 witness: logout from the dashboard of a logged-in user.
C9_Witness ==
    /\ op = "logout" /\ app = <<DashboardView>>
    /\ token = Null /\ hist[idx] = "/"

\* C10: every write of DashboardView into #app happens while a 'token' entry is
\* in storage.
C10_DashboardNeedsToken ==
    (lastDone.n > 0 /\ lastDone.html = DashboardView) => lastDone.hadToken

\* C11: 'spotify_user_id' is written only by the step in which the response
\* of POST /auth/callback arrives with an ok status and success = true, for a
\* request that was issued for a URL with a code whose state parameter was
\* non-null and equal to the stored 'spotify_auth_state'; in every other step
\* the key keeps its value or is removed.
C11_UserIdOnlyAfterValidCallback ==
    /\ [][ev'.wrote =>
            /\ ev'.op = "authResponse" /\ ev'.ok /\ ev'.success
            /\ req.kind = "callback" /\ query.code
            /\ req.state # Null /\ req.state = req.stored]_vars
    /\ [][(storage'.user # storage.user /\ storage'.user # Null) => ev'.wrote]_vars

\* C11 witness: a successful callback has stored the user id.
C11_Witness ==
    /\ ev.op = "authResponse" /\ ev.wrote
    /\ storage.user \in Users /\ query.code /\ query.state \in AuthStates

\* C12: right after logout none of the four keys is in storage, no timer
\* whose handle is held in this.intervals is active, currentUser and
\* viewingUser are null and the page is being redirected to '/'.
C12_LogoutClearsSession ==
    ev.op = "logout" =>
        /\ storage.user = Null /\ storage.pending = Null
        /\ storage.state = Null /\ storage.custom = Null
        /\ \A t \in timers : t.h \notin {intervals[k] : k \in Kinds}
        /\ currentUser = Null /\ viewingUser = Null
        /\ leaving = "/"

\* C12 witness: logout with all four keys stored and polling timers running.
C12_Witness ==
    /\ ev.op = "logout" /\ ev.cancelled > 0
    /\ ev.stored.user # Null /\ ev.stored.pending # Null
    /\ ev.stored.state # Null /\ ev.stored.custom # Null
    /\ storage.user = Null /\ timers = {}

\* C13 (as stated): every poll (startTracking round, interval tick, window
\* focus refresh) requests fresh data for each kind it polls.
C13_EveryPollFetches ==
    ev.op \in {"startTracking", "interval", "focus"} => ev.issued = ev.kinds

\* C13 (amended): a poll requests recent tracks always, and top tracks only
\* when the user's cache entry is absent or at least 300000 ms old (a poll
\* leaves the cache and the clock as they are, so both are read after it); a
\* successful response overwrites the user's entry with its data and the time
\* of its arrival.
C13_PollRefreshesStaleEntries ==
    /\ ev.op \in {"startTracking", "interval", "focus"} =>
          ev.issued = {k \in ev.kinds :
                          \/ k = "recentTracks"
                          \/ ~cache[k][ev.user].has
                          \/ clock - cache[k][ev.user].timestamp >= 300000}
    /\ (ev.op = "fetchDone" /\ ev.ok) =>
          cache[ev.kind][ev.user] =
              [has |-> TRUE, data |-> ev.data, timestamp |-> clock]

\* C13 witness: an interval tick found a top-tracks entry that had expired and
\* requested it again.
C13_Witness ==
    /\ ev.op = "interval" /\ ev.kinds = {"topTracks"}
    /\ cache["topTracks"][ev.user].has
    /\ clock - cache["topTracks"][ev.user].timestamp >= 300000
    /\ ev.issued = {"topTracks"}

\* C14: no two update requests of the same kind for the same user are in
\* flight at once.
C14_NoOverlappingUpdates ==
    \A i, j \in 1..Len(fetches) :
        i # j => ~(fetches[i].kind = fetches[j].kind /\ fetches[i].user = fetches[j].user)

\* C15: whenever no handleRoute is pending and the latest handleRoute was
\* started by navigate or by a back/forward event on a registered path, that
\* path is the current history path, that invocation was the last to write
\* #app, and #app holds exactly the output of the view registered for the
\* path when it started, however many invocations overlapped before.
C15_LatestRouteShown ==
    (/\ jobs = <<>> /\ lastCall.n > 0
     /\ lastCall.trig \in {"navigate", "back", "forward"}
     /\ lastCall.regAt > 0) =>
        /\ lastCall.path = hist[idx]
        /\ lastDone.n = lastCall.n
        /\ app = <<Render(registered[hist[idx]][lastCall.regAt])>>

\* C15 witness: the latest navigate started while an earlier handleRoute was
\* still pending, every invocation has finished, and #app shows its view.
C15_Witness ==
    /\ jobs = <<>> /\ lastCall.behind > 0 /\ lastCall.regAt > 0
    /\ lastDone.n = lastCall.n /\ lastCall.path = hist[idx]
    /\ app = <<Render(registered[hist[idx]][lastCall.regAt])>>

\* C16: the router is constructed with an empty #app and the history of the
\* page load; a step of addRoute changes neither #app, nor the history, nor
\* the set of started handleRoute invocations; #app is written only by the
\* continuation of a handleRoute that navigate or a back/forward event
\* started; the history moves only in steps that call navigate or that
\* deliver a popstate event.
C16_OnlyNavigationChangesView ==
    /\ [](op = "init" =>
            (app = <<>> /\ hist = <<"/">> /\ idx = 1 /\ jobs = <<>> /\ calls = 0))
    /\ [][op' = "addRoute" =>
            (app' = app /\ hist' = hist /\ idx' = idx /\ jobs' = jobs /\ calls' = calls)]_vars
    /\ [][app' # app =>
            (op' = "resume" /\ lastDone'.trig \in {"navigate", "back", "forward"})]_vars
    /\ [][(hist' # hist \/ idx' # idx) =>
            op' \in {"appInit", "navigate", "click", "popstate", "logout", "loginSettle"}]_vars

\* C16 witness: addRoute has just re-registered the path whose view is shown,
\* with a different view, and #app still holds the earlier view.
C16_Witness ==
    /\ op = "addRoute" /\ arg = hist[idx]
    /\ Len(registered[arg]) = 2 /\ registered[arg][1] # registered[arg][2]
    /\ app = <<Render(registered[arg][1])>>

\* C17: when the response of an update request arrives, a successful one
\* leaves its data in the user's cache entry, whether or not a request issued
\* later has written the entry before, and a failed one leaves the entry as
\* it was; a cache entry changes in no other step.
C17_LastCompletedWins ==
    /\ []((ev.op = "fetchDone" /\ ev.ok) =>
            (cache[ev.kind][ev.user].has /\ cache[ev.kind][ev.user].data = ev.data))
    /\ [][(ev'.op = "fetchDone" /\ ~ev'.ok) => cache' = cache]_vars
    /\ [][\A k \in Kinds, u \in Users :
            cache'[k][u] # cache[k][u] =>
                (ev'.op = "fetchDone" /\ ev'.ok /\ ev'.kind = k /\ ev'.user = u)]_vars

\* C17 witness: the response of the earlier of two overlapping requests
\* arrived after the later request had written the entry, and replaced it.
C17_Witness ==
    /\ ev.op = "fetchDone" /\ ev.ok /\ ev.overtaken
    /\ cache[ev.kind][ev.user].data = ev.data

\* C18: the step that finishes a startTracking round creates one timer per
\* kind and stores its handle without cancelling any timer that is active, and
\* no step cancels a timer whose handle is not stored in this.intervals.
C18_OrphanTimersSurvive ==
    /\ [][(ev'.op = "fetchDone" /\ ev'.settled) =>
            /\ timers \subseteq timers'
            /\ \A k \in Kinds :
                  /\ intervals'[k] \notin {t.h : t \in timers}
                  /\ \E t \in timers' : t.h = intervals'[k] /\ t.kind = k]_vars
    /\ [][\A t \in timers :
            t.h \notin {intervals[k] : k \in Kinds} => t \in timers']_vars

\* C18 witness: after two overlapping startTracking rounds and a later
\* clearIntervals, a timer of the first round is still active.
C18_Witness ==
    /\ ev.op = "handleRouting"
    /\ \E t \in timers : t.h \notin {intervals[k] : k \in Kinds}

\* C20: when checkAuthCallback has finished handling a URL with a code, the
\* keys 'spotify_auth_state', 'login_pending' and 'pending_custom_url' are
\* absent; a URL whose state parameter has been handled, and has not been
\* stored by a login since, is rejected and no POST is issued for it.
C20_StateSingleUse ==
    /\ [](ev.finished =>
            (storage.state = Null /\ storage.pending = Null /\ storage.custom = Null))
    /\ [](ev.replay => (ev.finished /\ ~ev.posted))
    /\ [][ev'.posted => (query.code /\ query.state \notin spent)]_vars

\* C20 witness: a callback URL whose state had been accepted before was
\* handled again and rejected.
C20_Witness ==
    /\ ev.op = "checkAuthCallback" /\ ev.replay /\ ev.finished /\ ~ev.posted
    /\ query.state \in AuthStates /\ storage.user \in Users

\* C19: in part_000, the step in which a profile request of handleRouting
\* fails shows an error; when no 'spotify_user_id' is stored it redirects to
\* '/', and when one is stored it starts no redirect and leaves the path,
\* the visibility of the three sections, the active timers and their stored
\* handles as they were.
C19_LookupFailure ==
    [][last'.op = "lookupFailed" =>
        /\ last'.error
        /\ session.user = Null => redirected' = "/"
        /\ session.user # Null =>
              /\ redirected' = redirected
              /\ pathname' = pathname
              /\ sections' = sections
              /\ running' = running
              /\ trackHandles' = trackHandles
              /\ tracking' = tracking]_vars

\* C19 witness: a profile request failed for a logged-in user whose page
\* shows a profile with its timers running; nothing was redirected.
C19_Witness ==
    /\ last.op = "lookupFailed" /\ session.user # Null
    /\ sections.profile /\ ~sections.login /\ running # {}
    /\ redirected = ""

\* C21: in part_000, checkAuthCallback sends the code to the backend only
\* when a 'spotify_auth_state' was stored and the state of the address
\* equals it; a code without a state, met with no stored state, is rejected.
C21_ExchangeNeedsStoredState ==
    exchange.sent => exchange.stored # Null /\ params.state = exchange.stored

\* C22: in part_000, the step that ends checkAuthCallback's handling of a
\* code leaves 'login_pending' absent from storage, whatever the response.
C22_PendingClearedAfterCallback ==
    [][last'.op = "authSettle" => session'.pending = Null]_vars

\* C23: the custom_url that POST /auth/callback carries is non-empty only
\* when the login() that wrote the stored 'spotify_auth_state' was a login
\* with a custom URL.
C23_CustomUrlOfThisLogin ==
    [][(ev'.posted /\ req'.custom # Null) => loginUrl # ""]_vars

\* C24: login(true) with #custom-url-input missing or not marked valid
\* reports an error, writes none of the keys and starts no redirect; after
\* every login call state.isLoading is false.
C24_InvalidLoginChangesNothing ==
    /\ [][ev'.op = "loginFailed" => (storage' = storage /\ leaving' = leaving)]_vars
    /\ []((ev.op = "login" /\ ev.custom) => (ev.input.present /\ ev.input.valid))
    /\ [](ev.op \in {"login", "loginFailed", "loginIgnored"} => ~isLoading)

\* C24 witness: a custom-URL login was refused while a user id and an
\* earlier attempt's keys were stored; nothing was redirected.
C24_Witness ==
    /\ ev.op = "loginFailed" /\ ev.custom /\ ~ev.input.valid /\ leaving = ""
    /\ ev.stored = storage /\ storage.user # Null /\ storage.pending # Null

\* C25: checkExistingSession requests GET /users/{id} for the stored id when
\* 'spotify_user_id' is stored and 'login_pending' is absent, and a failure
\* of that request removes 'spotify_user_id'; when 'login_pending' is set or
\* no id is stored it issues no such request, and neither it nor the end of
\* the profile load it waits for changes the storage.
C25_SessionValidation ==
    /\ [][ev'.op = "pageLoad" =>
            IF storage.user # Null /\ storage.pending = Null
            THEN pc' = "session" /\ req'.kind = "session" /\ req'.user = storage.user
            ELSE pc' # "session" /\ req'.kind # "session" /\ storage' = storage]_vars
    /\ [][(ev'.op = "sessionSettle" /\ ~ev'.ok) =>
            (storage'.user = Null /\ leaving' = "/")]_vars
    /\ [][(pc = "visit" /\ pc' # "visit") =>
            (storage' = storage /\ req'.kind # "session")]_vars

\* C25 witness: the validation of a stored id failed and the id is gone.
C25_Witness ==
    /\ ev.op = "sessionSettle" /\ ~ev.ok /\ req = NoReq
    /\ storage.user = Null /\ leaving = "/" /\ ~query.code

\* C26: in part_000, once every pending request has completed, the timers
\* that a profile load has just set belong to the user the current path
\* names, and on path '/' with no stored user id the login section is shown
\* and no timer is active.
C26_ProfileFollowsLatestRoute ==
    (lookups = <<>> /\ tracking = <<>> /\ ~sessionCheck /\ ~exchange.pending
       /\ redirected = "")
    => /\ last.op = "trackingSettle" =>
            \A t \in running : t.user = ViewingUserId(pathname, session)
       /\ ViewingUserId(pathname, session) = Null =>
            (sections = LoginShown /\ running = {})

\* C27: in the search box of part_000, the response of a search that an
\* input event has followed changes nothing in the result list: it neither
\* replaces what is listed nor shows the list again.
C27_StaleResponseIgnored ==
    [][(sev'.op = "searchSettle" /\ sev'.stale) => results' = results]_vars

\* C28: in the profile-URL editor of part_000, #save-url-btn is enabled
\* only while the content of the input passes the local tests (3 to 30
\* letters or digits) and check-url has answered it as available.
C28_SaveOnlyForAvailableUrl ==
    ~saveDisabled =>
        /\ UrlLength(urlValue) >= 3 /\ UrlLength(urlValue) <= 30
        /\ IsAlnum(urlValue)
        /\ urlValue \in answered
====
